---- MODULE Spec2Model ----
(***************************************************************************)
(* A model of generate_mock_db.py: the identifier factory, the fourteen    *)
(* collection generators and build_mock_data, which runs them in order.    *)
(*                                                                         *)
(* One behaviour is one call of build_mock_data (or, when mode is "idf",   *)
(* one client driving an IdFactory with arbitrary prefixes).  A generator  *)
(* is one action; each step of the action is one turn of the generator's   *)
(* loops, and the step taken when the loops are exhausted is its return.   *)
(*                                                                         *)
(* random.seed(seed) fixes the stream of draws; the draws are modelled as  *)
(* nondeterministic choices (every seed), and two invocations with the     *)
(* same seed (the runs of SpecTwin) see the same draws.  The wall clock    *)
(* (datetime.now) is an input of its own: every reading is any instant of  *)
(* Clocks not before the previous reading of that invocation.              *)
(*                                                                         *)
(* Fields that are sampled decoration and take part in no relation between *)
(* records (names, plans, titles, filters, thresholds, active flags,       *)
(* scopes, e-mail addresses, sample counts) are left out of the records.   *)
(***************************************************************************)
EXTENDS Integers, Sequences, FiniteSets, TLC

VARIABLES
    mode,     \* "build": a call of build_mock_data; "idf": a client of IdFactory
    pc,       \* the generator build_mock_data is in, "done" after the return
    cfg,      \* the cardinality parameters of build_mock_data
    oi,       \* position of the generator's outer loop (1-based)
    ii,       \* position of the generator's inner loop (as range() counts)
    name,     \* gen_metrics: the name drawn for the metric being made
    prj,      \* gen_permissions: the project drawn for the binding being made
    tries,    \* the retry counter of the de-duplication loop
    used,     \* gen_metrics: names used in the current project
    chosen,   \* gen_permissions: project ids chosen for the current user
    runs      \* per invocation: the clock, the IdFactory and the collections

vars == <<mode, pc, cfg, oi, ii, name, prj, tries, used, chosen, runs>>

ctl == <<name, prj, tries, used, chosen>>

-----------------------------------------------------------------------------
(* Bounds of the model *)

MaxCount == 2     \* largest value of a varied cardinality parameter
MaxCalls == 4     \* IdFactory client: number of next() calls

-----------------------------------------------------------------------------
(* Python values *)

None == "None"

\* Optional timestamp: <<>> is None, <<t>> is the string of instant t.
NoTime == << >>

\* range() counting up to the magnitude of a negative bound
RangeAbs(n) == 0 .. ((IF n < 0 THEN -n ELSE n) - 1)

Range(n) == 0 .. (n - 1)

Min(a, b) == IF a < b THEN a ELSE b

-----------------------------------------------------------------------------
(* datetime: seconds since an epoch and the microsecond field *)

DaySec == 86400

Instant(sec, us) == [sec |-> sec, us |-> us]

\* datetime - timedelta(days=d, minutes=m)
MinusDelta(dt, d, m) == [dt EXCEPT !.sec = dt.sec - (d * DaySec + m * 60)]

\* datetime + timedelta(minutes=m)
PlusMinutes(dt, m) == [dt EXCEPT !.sec = dt.sec + m * 60]

\* iso(dt): microseconds dropped; the ISO-8601 text of a whole-second UTC
\* instant is represented by its second count.
iso(dt) == [dt EXCEPT !.us = 0].sec

\* dt.date(): the day number
DateOf(dt) == dt.sec \div DaySec

Leq(a, b) == a.sec < b.sec \/ (a.sec = b.sec /\ a.us <= b.us)

\* Instants the wall clock is read at: late in a second of one day, and at
\* the start of a second on the next day.
Clocks == { Instant(40 * DaySec + 3600, 999999), Instant(41 * DaySec + 7200, 0) }

\* now_utc(): any instant not before the last reading
now_utc(last) == { t \in Clocks : Leq(last, t) }

-----------------------------------------------------------------------------
(* IdFactory *)

EmptyCounters == [p \in {} |-> 0]

\* self.counters.get(prefix, 0)
Get(counters, prefix) == IF prefix \in DOMAIN counters THEN counters[prefix] ELSE 0

\* f"{prefix}_{n}"
Fmt(prefix, n) == prefix \o "_" \o ToString(n)

\* the counter written without reading its old value
BumpReset(counters, prefix) == (prefix :> 1) @@ counters

\* IdFactory.next: the counters after the call
Bump(counters, prefix) == (prefix :> (Get(counters, prefix) + 1)) @@ counters

\* IdFactory.next: the identifier returned
IdOf(counters, prefix) == Fmt(prefix, Bump(counters, prefix)[prefix])

\* One invocation's state after idf.next(prefix); issued is the log of calls.
IdfNext(r, prefix) ==
    [r EXCEPT !.counters = Bump(r.counters, prefix),
              !.issued = Append(r.issued, [prefix |-> prefix,
                                           id |-> IdOf(r.counters, prefix)])]

-----------------------------------------------------------------------------
(* build_mock_data: parameters *)

Params == { "orgs_count", "users_per_org", "projects_per_org",
            "dashboards_per_project", "widgets_per_dashboard",
            "metrics_per_project", "samples_per_metric", "alerts_per_project",
            "incidents_per_alert", "suites_per_project", "runs_per_suite",
            "permissions_per_user", "feature_flags_count", "audit_logs_count" }

EmptyRun(clock) ==
    [ now |-> clock, base_date |-> 0,
      counters |-> EmptyCounters, issued |-> << >>,
      orgs |-> << >>, users |-> << >>, projects |-> << >>,
      dashboards |-> << >>, metrics |-> << >>, metric_samples |-> << >>,
      widgets |-> << >>, alerts |-> << >>, incidents |-> << >>,
      eval_suites |-> << >>, eval_runs |-> << >>, permissions |-> << >>,
      feature_flags |-> << >>, audit_logs |-> << >> ]

-----------------------------------------------------------------------------
(* Catalog tables *)

\* METRIC_CATALOG: (name, retention_days, status)
METRIC_CATALOG ==
    << <<"http_latency_ms", 30, "active">>,
       <<"error_rate_pct", 60, "active">>,
       <<"requests_per_minute", 14, "active">>,
       <<"cpu_usage_pct", 7, "active">>,
       <<"memory_usage_mb", 30, "active">>,
       <<"db_conn_pool_busy_pct", 30, "active">> >>

\* gen_feature_flags: keys
FLAG_KEYS ==
    << "widgets.grid_v2", "dashboards.public_share", "alerts.auto_mute",
       "metrics.rollup_v3", "projects.bulk_edit", "rbac.granular",
       "eval.live_compare", "ui.dark_mode", "api.tokens_v2" >>

\* The budget of the de-duplication loops: `tries < 10`
RetryBudget == 10

\* random.randint(a, b): the draws the model enumerates are the two ends
randint(a, b) == {a, b}

\* timedelta(days=random.randint(d0, d1), minutes=random.randint(m0, m1)):
\* the draws enumerated are the shortest and the longest offset
Offsets(d0, d1, m0, m1) ==
    { o \in randint(d0, d1) \X randint(m0, m1) : o \in {<<d0, m0>>, <<d1, m1>>} }

-----------------------------------------------------------------------------
(* Control: the loops of a generator *)

\* The invocation the control state is read from.  Loop bounds depend on the
\* parameters and on collection lengths only, never on the clock, so every
\* invocation of a behaviour is at the same place.
R1 == runs[1]

\* for parent in parents (n of them): for _ in range(k): body
Turn(n, k) ==
    IF oi > n THEN "return"
    ELSE IF ii \in Range(k) THEN "body" ELSE "next"

\* The body ran once: the inner loop advances.
Body(newRuns) ==
    /\ runs' = newRuns
    /\ ii' = ii + 1
    /\ UNCHANGED <<pc, oi>>

\* The inner loop is exhausted: the outer loop takes the next parent.
NextParent ==
    /\ oi' = oi + 1
    /\ ii' = 0
    /\ UNCHANGED <<pc, runs>>

\* The generator returns and build_mock_data calls the next one.
Return(next) ==
    /\ pc' = next
    /\ oi' = 1
    /\ ii' = 0
    /\ UNCHANGED runs

\* One clock reading per invocation.
Readings == { t \in [DOMAIN runs -> Clocks] :
                \A k \in DOMAIN runs : t[k] \in now_utc(runs[k].now) }

-----------------------------------------------------------------------------
(* gen_orgs *)

AddOrg(r) ==
    [IdfNext(r, "org") EXCEPT !.orgs = Append(@, [id |-> IdOf(r.counters, "org")])]

gen_orgs ==
    /\ mode = "build" /\ pc = "gen_orgs"
    /\ IF ii \in Range(cfg.orgs_count)
       THEN Body([k \in DOMAIN runs |-> AddOrg(runs[k])])
       ELSE Return("gen_users")
    /\ UNCHANGED <<mode, cfg, ctl>>

-----------------------------------------------------------------------------
(* gen_users *)

\* `u <= 1` for `u == 0`
RolesTwoAdmins(u) == IF u <= 1 THEN {"admin"} ELSE {"member", "viewer"}

\* "admin" if u == 0 else ("member" if random.random() > 0.2 else "viewer")
Roles(u) == IF u = 0 THEN {"admin"} ELSE {"member", "viewer"}

AddUser(r, org, role) ==
    [IdfNext(r, "usr") EXCEPT
        !.users = Append(@, [id |-> IdOf(r.counters, "usr"),
                             org_id |-> org.id,
                             role |-> role])]

gen_users ==
    /\ mode = "build" /\ pc = "gen_users"
    /\ LET t == Turn(Len(R1.orgs), cfg.users_per_org) IN
       CASE t = "body" ->
              \E role \in Roles(ii) :
                 LET step(r) == AddUser(r, r.orgs[oi], role) IN Body([k \in DOMAIN runs |-> step(runs[k])])
         [] t = "next" -> NextParent
         [] t = "return" -> Return("gen_projects")
    /\ UNCHANGED <<mode, cfg, ctl>>

-----------------------------------------------------------------------------
(* gen_projects *)

AddProject(r, org) ==
    [IdfNext(r, "prj") EXCEPT
        !.projects = Append(@, [id |-> IdOf(r.counters, "prj"),
                                org_id |-> org.id])]

gen_projects ==
    /\ mode = "build" /\ pc = "gen_projects"
    /\ LET t == Turn(Len(R1.orgs), cfg.projects_per_org) IN
       CASE t = "body" ->
              LET step(r) == AddProject(r, r.orgs[oi]) IN Body([k \in DOMAIN runs |-> step(runs[k])])
         [] t = "next" -> NextParent
         [] t = "return" -> Return("gen_dashboards")
    /\ UNCHANGED <<mode, cfg, ctl>>

-----------------------------------------------------------------------------
(* gen_dashboards *)

\* every user, whatever the org
UsersOfAnyOrg(users, org_id) == users

\* users_by_org.get(org_id, [])
UsersByOrg(users, org_id) == SelectSeq(users, LAMBDA u : u.org_id = org_id)

\* owner = pick(org_users) if org_users else None; d is the draw
\* owner["id"] if owner else None
OwnerId(org_users, d) == IF org_users # << >> THEN org_users[d].id ELSE None

\* the draws of pick(seq) if seq else None
Draws(seq) == IF seq # << >> THEN 1 .. Len(seq) ELSE {0}

AddDashboard(r, project, d) ==
    [IdfNext(r, "db") EXCEPT
        !.dashboards =
            Append(@, [id |-> IdOf(r.counters, "db"),
                       project_id |-> project.id,
                       owner_user_id |->
                           OwnerId(UsersByOrg(r.users, project.org_id), d)])]

gen_dashboards ==
    /\ mode = "build" /\ pc = "gen_dashboards"
    /\ LET t == Turn(Len(R1.projects), cfg.dashboards_per_project) IN
       CASE t = "body" ->
              \E d \in Draws(UsersByOrg(R1.users, R1.projects[oi].org_id)) :
                 LET step(r) == AddDashboard(r, r.projects[oi], d) IN
                 Body([k \in DOMAIN runs |-> step(runs[k])])
         [] t = "next" -> NextParent
         [] t = "return" -> Return("gen_metrics")
    /\ UNCHANGED <<mode, cfg, ctl>>

-----------------------------------------------------------------------------
(* gen_metrics *)

\* `tries < 3`
ResampleShort(nm, usedNames, n) == nm \in usedNames /\ n < 3

\* `tries <= 10`
ResampleOver(nm, usedNames, n) == nm \in usedNames /\ n <= RetryBudget

\* while name in used and tries < 10
Resample(nm, usedNames, n) == nm \in usedNames /\ n < RetryBudget

AddMetric(r, project, entry) ==
    [IdfNext(r, "m") EXCEPT
        !.metrics = Append(@, [id |-> IdOf(r.counters, "m"),
                               project_id |-> project.id,
                               name |-> entry[1],
                               retention_days |-> entry[2],
                               status |-> entry[3]])]

\* name is the index of the catalog entry drawn, 0 before the first draw of
\* an iteration.
gen_metrics ==
    /\ mode = "build" /\ pc = "gen_metrics"
    /\ LET t == Turn(Len(R1.projects), cfg.metrics_per_project) IN
       CASE t = "body" ->
              IF name = 0
              THEN /\ name' \in 1 .. Len(METRIC_CATALOG)
                   /\ tries' = 0
                   /\ UNCHANGED <<pc, oi, ii, runs, used>>
              ELSE IF Resample(METRIC_CATALOG[name][1], used, tries)
              THEN /\ name' \in 1 .. Len(METRIC_CATALOG)
                   /\ tries' = tries + 1
                   /\ UNCHANGED <<pc, oi, ii, runs, used>>
              ELSE /\ used' = used \cup {METRIC_CATALOG[name][1]}
                   /\ LET step(r) == AddMetric(r, r.projects[oi], METRIC_CATALOG[name])
                      IN Body([k \in DOMAIN runs |-> step(runs[k])])
                   /\ name' = 0
                   /\ tries' = 0
         [] t = "next" -> NextParent /\ used' = {} /\ UNCHANGED <<name, tries>>
         [] t = "return" ->
              /\ pc' = "gen_metric_samples"
              /\ oi' = 0
              /\ ii' = 0
              /\ UNCHANGED <<runs, name, tries, used>>
    /\ UNCHANGED <<mode, cfg, prj, chosen>>

-----------------------------------------------------------------------------
(* gen_metric_samples *)

\* base_date = now_utc().date()
ReadBaseDate(r, t) == [r EXCEPT !.now = t, !.base_date = DateOf(t)]

\* day = base_date - timedelta(days=(samples_per_metric - 1 - i)); the ISO
\* text of a date is represented by its day number.
AddSample(r, metric, i, n) ==
    [r EXCEPT !.metric_samples =
        Append(@, [metric_id |-> metric.id,
                   date |-> r.base_date - (n - 1 - i)])]

\* oi = 0 is the place before the loops, where the clock is read.
gen_metric_samples ==
    /\ mode = "build" /\ pc = "gen_metric_samples"
    /\ IF oi = 0
       THEN /\ \E t \in Readings : runs' = [k \in DOMAIN runs |-> ReadBaseDate(runs[k], t[k])]
            /\ oi' = 1
            /\ UNCHANGED <<pc, ii>>
       ELSE LET t == Turn(Len(R1.metrics), cfg.samples_per_metric) IN
            CASE t = "body" ->
                   LET step(r) == AddSample(r, r.metrics[oi], ii, cfg.samples_per_metric)
                   IN Body([k \in DOMAIN runs |-> step(runs[k])])
              [] t = "next" -> NextParent
              [] t = "return" -> Return("gen_widgets")
    /\ UNCHANGED <<mode, cfg, ctl>>

-----------------------------------------------------------------------------
(* gen_widgets *)

\* every metric, whatever the project
MetricsOfAnyProject(metrics, project_id) == metrics

\* metrics_by_project.get(project_id, [])
MetricsByProject(metrics, project_id) ==
    SelectSeq(metrics, LAMBDA m : m.project_id = project_id)

\* m = pick(prj_metrics) if prj_metrics else None; d is the draw
\* m["id"] if m else None
MetricId(prj_metrics, d) == IF prj_metrics # << >> THEN prj_metrics[d].id ELSE None

\* "dashboard_id": db["project_id"]
AddWidgetWrongKey(r, db, d) ==
    [IdfNext(r, "w") EXCEPT
        !.widgets =
            Append(@, [id |-> IdOf(r.counters, "w"),
                       dashboard_id |-> db.project_id,
                       metric_id |->
                           MetricId(SelectSeq(r.metrics,
                                        LAMBDA m : m.project_id = db.project_id), d)])]

AddWidget(r, db, d) ==
    [IdfNext(r, "w") EXCEPT
        !.widgets =
            Append(@, [id |-> IdOf(r.counters, "w"),
                       dashboard_id |-> db.id,
                       metric_id |->
                           MetricId(MetricsByProject(r.metrics, db.project_id), d)])]

gen_widgets ==
    /\ mode = "build" /\ pc = "gen_widgets"
    /\ LET t == Turn(Len(R1.dashboards), cfg.widgets_per_dashboard) IN
       CASE t = "body" ->
              \E d \in Draws(MetricsByProject(R1.metrics, R1.dashboards[oi].project_id)) :
                 LET step(r) == AddWidget(r, r.dashboards[oi], d) IN
                 Body([k \in DOMAIN runs |-> step(runs[k])])
         [] t = "next" -> NextParent
         [] t = "return" -> Return("gen_alerts")
    /\ UNCHANGED <<mode, cfg, ctl>>

-----------------------------------------------------------------------------
(* gen_alerts *)

\* iso(last_fire) if random.random() > 0.4 else None
LastFiredAt(last_fire, fired) == IF fired THEN <<iso(last_fire)>> ELSE NoTime

AddAlert(r, t, project, d, days, minutes, fired) ==
    [IdfNext(r, "al") EXCEPT
        !.now = t,
        !.alerts =
            Append(@, [id |-> IdOf(r.counters, "al"),
                       project_id |-> project.id,
                       metric_id |->
                           MetricId(MetricsByProject(r.metrics, project.id), d),
                       last_fired_at |->
                           LastFiredAt(MinusDelta(t, days, minutes), fired)])]

gen_alerts ==
    /\ mode = "build" /\ pc = "gen_alerts"
    /\ LET t == Turn(Len(R1.projects), cfg.alerts_per_project) IN
       CASE t = "body" ->
              \E d \in Draws(MetricsByProject(R1.metrics, R1.projects[oi].id)),
                 off \in Offsets(0, 7, 0, 1440),
                 fired \in BOOLEAN, at \in Readings :
                 LET step(r, now) ==
                         AddAlert(r, now, r.projects[oi], d, off[1], off[2], fired)
                 IN Body([k \in DOMAIN runs |-> step(runs[k], at[k])])
         [] t = "next" -> NextParent
         [] t = "return" -> Return("gen_incidents")
    /\ UNCHANGED <<mode, cfg, ctl>>

-----------------------------------------------------------------------------
(* gen_incidents *)

\* resolved = opened - timedelta(minutes=...)
ResolutionBackwards(opened, coin, minutes) ==
    IF coin
    THEN [resolved |-> <<PlusMinutes(opened, 0 - minutes)>>, status |-> "resolved"]
    ELSE [resolved |-> NoTime, status |-> "open"]

\* if random.random() > 0.5: resolved = opened + timedelta(minutes=...),
\* status = "resolved"; else: resolved = None, status = "open"
Resolution(opened, coin, minutes) ==
    IF coin
    THEN [resolved |-> <<PlusMinutes(opened, minutes)>>, status |-> "resolved"]
    ELSE [resolved |-> NoTime, status |-> "open"]

\* iso(resolved) if resolved else None
ResolvedAt(resolved) == IF resolved # NoTime THEN <<iso(resolved[1])>> ELSE NoTime

AddIncident(r, t, alert, days, minutes, coin, after) ==
    LET opened == MinusDelta(t, days, minutes)
        res == Resolution(opened, coin, after)
    IN [IdfNext(r, "inc") EXCEPT
          !.now = t,
          !.incidents =
              Append(@, [id |-> IdOf(r.counters, "inc"),
                         alert_id |-> alert.id,
                         status |-> res.status,
                         opened_at |-> iso(opened),
                         resolved_at |-> ResolvedAt(res.resolved)])]

gen_incidents ==
    /\ mode = "build" /\ pc = "gen_incidents"
    /\ LET t == Turn(Len(R1.alerts), cfg.incidents_per_alert) IN
       CASE t = "body" ->
              \E off \in Offsets(0, 10, 10, 10000),
                 coin \in BOOLEAN, after \in randint(5, 180), at \in Readings :
                 LET step(r, now) ==
                         AddIncident(r, now, r.alerts[oi], off[1], off[2], coin, after)
                 IN Body([k \in DOMAIN runs |-> step(runs[k], at[k])])
         [] t = "next" -> NextParent
         [] t = "return" -> Return("gen_eval_suites")
    /\ UNCHANGED <<mode, cfg, ctl>>

-----------------------------------------------------------------------------
(* gen_eval_suites, gen_eval_runs *)

AddSuite(r, project) ==
    [IdfNext(r, "es") EXCEPT
        !.eval_suites = Append(@, [id |-> IdOf(r.counters, "es"),
                                   project_id |-> project.id])]

gen_eval_suites ==
    /\ mode = "build" /\ pc = "gen_eval_suites"
    /\ LET t == Turn(Len(R1.projects), cfg.suites_per_project) IN
       CASE t = "body" ->
              LET step(r) == AddSuite(r, r.projects[oi]) IN Body([k \in DOMAIN runs |-> step(runs[k])])
         [] t = "next" -> NextParent
         [] t = "return" -> Return("gen_eval_runs")
    /\ UNCHANGED <<mode, cfg, ctl>>

AddRun(r, t, suite, days, minutes) ==
    [IdfNext(r, "er") EXCEPT
        !.now = t,
        !.eval_runs = Append(@, [id |-> IdOf(r.counters, "er"),
                                 suite_id |-> suite.id,
                                 created_at |-> iso(MinusDelta(t, days, minutes))])]

gen_eval_runs ==
    /\ mode = "build" /\ pc = "gen_eval_runs"
    /\ LET t == Turn(Len(R1.eval_suites), cfg.runs_per_suite) IN
       CASE t = "body" ->
              \E off \in Offsets(0, 5, 0, 60 * 12), at \in Readings :
                 LET step(r, now) == AddRun(r, now, r.eval_suites[oi], off[1], off[2])
                 IN Body([k \in DOMAIN runs |-> step(runs[k], at[k])])
         [] t = "next" -> NextParent
         [] t = "return" -> Return("gen_permissions")
    /\ UNCHANGED <<mode, cfg, ctl>>

-----------------------------------------------------------------------------
(* gen_permissions *)

\* projects_by_org.get(org_id, [])
ProjectsByOrg(projects, org_id) == SelectSeq(projects, LAMBDA p : p.org_id = org_id)

AddPermission(r, user, project) ==
    [r EXCEPT !.permissions =
        Append(@, [user_id |-> user.id, project_id |-> project.id])]

\* prj is the index of the project drawn among available_projects, 0 before
\* the first draw of an iteration.
gen_permissions ==
    /\ mode = "build" /\ pc = "gen_permissions"
    /\ IF oi > Len(R1.users)
       THEN Return("gen_feature_flags") /\ UNCHANGED <<prj, tries, chosen>>
       ELSE LET available_projects == ProjectsByOrg(R1.projects, R1.users[oi].org_id)
            IN IF ii \in Range(Min(cfg.permissions_per_user, Len(available_projects)))
               THEN IF prj = 0
                    THEN /\ prj' \in 1 .. Len(available_projects)
                         /\ tries' = 0
                         /\ UNCHANGED <<pc, oi, ii, runs, chosen>>
                    ELSE IF Resample(available_projects[prj].id, chosen, tries)
                    THEN /\ prj' \in 1 .. Len(available_projects)
                         /\ tries' = tries + 1
                         /\ UNCHANGED <<pc, oi, ii, runs, chosen>>
                    ELSE /\ chosen' = chosen \cup {available_projects[prj].id}
                         /\ LET step(r) ==
                                  AddPermission(r, r.users[oi],
                                      ProjectsByOrg(r.projects, r.users[oi].org_id)[prj])
                            IN Body([k \in DOMAIN runs |-> step(runs[k])])
                         /\ prj' = 0
                         /\ tries' = 0
               ELSE NextParent /\ chosen' = {} /\ UNCHANGED <<prj, tries>>
    /\ UNCHANGED <<mode, cfg, name, used>>

-----------------------------------------------------------------------------
(* gen_feature_flags *)

\* keys[i % len(keys)] if i < len(keys) else f"custom.flag_{i+1}"
FlagKey(i) ==
    IF i < Len(FLAG_KEYS)
    THEN FLAG_KEYS[(i % Len(FLAG_KEYS)) + 1]
    ELSE "custom.flag_" \o ToString(i + 1)

\* [o["id"] for o in orgs if random.random() > 0.6]; S holds the positions
\* whose draw passed
EnabledFor(orgs, S) ==
    LET kept == SelectSeq([i \in 1 .. Len(orgs) |-> i], LAMBDA i : i \in S)
    IN [j \in 1 .. Len(kept) |-> orgs[kept[j]].id]

AddFlag(r, i, S) ==
    [r EXCEPT !.feature_flags =
        Append(@, [key |-> FlagKey(i), enabled_for_orgs |-> EnabledFor(r.orgs, S)])]

gen_feature_flags ==
    /\ mode = "build" /\ pc = "gen_feature_flags"
    /\ IF ii \in Range(cfg.feature_flags_count)
       THEN \E S \in SUBSET (1 .. Len(R1.orgs)) :
               LET step(r) == AddFlag(r, ii, S) IN Body([k \in DOMAIN runs |-> step(runs[k])])
       ELSE Return("gen_audit_logs")
    /\ UNCHANGED <<mode, cfg, ctl>>

-----------------------------------------------------------------------------
(* gen_audit_logs *)

\* ids_pool: the ids of projects, dashboards, widgets and alerts, in order
IdsPool(r) ==
    [i \in 1 .. Len(r.projects) |-> r.projects[i].id]
    \o [i \in 1 .. Len(r.dashboards) |-> r.dashboards[i].id]
    \o [i \in 1 .. Len(r.widgets) |-> r.widgets[i].id]
    \o [i \in 1 .. Len(r.alerts) |-> r.alerts[i].id]

\* target_type, target_id = pick(ids_pool) if ids_pool else (None, None)
TargetId(ids_pool, d) == IF ids_pool # << >> THEN ids_pool[d] ELSE None

\* actor["org_id"] if actor else (orgs[0]["id"] if orgs else None)
LogOrgId(users, orgs, d) ==
    IF users # << >> THEN users[d].org_id
    ELSE IF orgs # << >> THEN orgs[1].id ELSE None

\* actor["id"] if actor else None
ActorId(users, d) == IF users # << >> THEN users[d].id ELSE None

AddAuditLog(r, t, da, dt, minutes) ==
    [IdfNext(r, "aud") EXCEPT
        !.now = t,
        !.audit_logs =
            Append(@, [id |-> IdOf(r.counters, "aud"),
                       org_id |-> LogOrgId(r.users, r.orgs, da),
                       actor_user_id |-> ActorId(r.users, da),
                       target_id |-> TargetId(IdsPool(r), dt),
                       at |-> iso(MinusDelta(t, 0, minutes))])]

gen_audit_logs ==
    /\ mode = "build" /\ pc = "gen_audit_logs"
    /\ IF ii \in Range(cfg.audit_logs_count)
       THEN \E da \in Draws(R1.users), dt \in Draws(IdsPool(R1)),
               minutes \in randint(0, 10000), at \in Readings :
               LET step(r, now) == AddAuditLog(r, now, da, dt, minutes)
               IN Body([k \in DOMAIN runs |-> step(runs[k], at[k])])
       ELSE Return("done")
    /\ UNCHANGED <<mode, cfg, ctl>>

-----------------------------------------------------------------------------
(* A client of IdFactory: next() with any prefix, in any order *)

\* Prefixes the client uses; "m_1" is also an identifier issued for "m".
ClientPrefixes == {"m", "m_1", "al"}

IdFactory_next ==
    /\ mode = "idf"
    /\ Len(R1.issued) < MaxCalls
    /\ \E prefix \in ClientPrefixes :
          LET step(r) == IdfNext(r, prefix) IN runs' = [k \in DOMAIN runs |-> step(runs[k])]
    /\ UNCHANGED <<mode, pc, cfg, oi, ii, ctl>>

-----------------------------------------------------------------------------
(* Parameters the model runs build_mock_data with *)

\* Every collection generated once per parent.
Full == [p \in Params |-> 1]

\* One org, one user, one project, and ones for the parameters in ps.
Lean(ps) ==
    [p \in Params |->
        IF p \in {"orgs_count", "users_per_org", "projects_per_org"} \cup ps
        THEN 1 ELSE 0]

Counts == -1 .. MaxCount

\* base with the parameters ps set to every combination of Counts
Vary(base, ps) ==
    { [p \in Params |-> IF p \in ps THEN v[p] ELSE base[p]] : v \in [ps -> Counts] }

\* The collections a widget hangs on, an alert hangs on, an audit log aims at
Widgets == {"dashboards_per_project", "widgets_per_dashboard", "metrics_per_project"}

Alerts == {"metrics_per_project", "alerts_per_project"}

Targets == {"dashboards_per_project", "widgets_per_dashboard", "alerts_per_project"}

\* Two projects, each with a metric, a dashboard, a widget and an alert
TwoCharted == [Lean(Widgets \cup Alerts) EXCEPT !.projects_per_org = 2]

\* Full, and each chain of collections on its own with one or two of its
\* parameters taking every value of Counts.
Configs ==
    {Full, TwoCharted}
    \cup Vary(Lean({}), {"orgs_count", "users_per_org"})
    \cup Vary(Lean({"dashboards_per_project"}), {"orgs_count", "users_per_org"})
    \cup Vary(Lean({"permissions_per_user"}), {"orgs_count"})
    \cup Vary(Lean({}), {"projects_per_org", "permissions_per_user"})
    \cup Vary(Lean({}), {"metrics_per_project", "samples_per_metric"})
    \cup Vary(Lean({"metrics_per_project"}),
              {"dashboards_per_project", "widgets_per_dashboard"})
    \cup Vary(Lean(Widgets), {"projects_per_org"})
    \cup Vary(Lean(Widgets), {"metrics_per_project"})
    \cup Vary(Lean(Alerts), {"projects_per_org"})
    \cup Vary(Lean(Alerts), {"metrics_per_project"})
    \cup Vary(Lean(Alerts), {"alerts_per_project"})
    \cup Vary(Lean({"alerts_per_project"}), {"incidents_per_alert"})
    \cup Vary(Lean({}), {"suites_per_project", "runs_per_suite"})
    \cup Vary(Lean({}), {"orgs_count", "feature_flags_count"})
    \cup Vary(Lean({}), {"users_per_org", "audit_logs_count"})
    \cup Vary(Lean(Targets), {"audit_logs_count"})

Epoch == Instant(0, 0)

Init ==
    /\ mode \in {"build", "idf"}
    /\ pc = IF mode = "build" THEN "gen_orgs" ELSE "idf"
    /\ cfg \in IF mode = "build" THEN Configs ELSE {Lean({})}
    /\ oi = 1 /\ ii = 0
    /\ name = 0 /\ prj = 0 /\ tries = 0 /\ used = {} /\ chosen = {}
    /\ runs = [k \in {1} |-> EmptyRun(Epoch)]

Next ==
    \/ gen_orgs
    \/ gen_users
    \/ gen_projects
    \/ gen_dashboards
    \/ gen_metrics
    \/ gen_metric_samples
    \/ gen_widgets
    \/ gen_alerts
    \/ gen_incidents
    \/ gen_eval_suites
    \/ gen_eval_runs
    \/ gen_permissions
    \/ gen_feature_flags
    \/ gen_audit_logs
    \/ IdFactory_next

Spec == Init /\ [][Next]_vars

\* Two invocations of build_mock_data with the same seed and parameters, each
\* with its own clock.
TwinConfigs == {Full, Lean({"metrics_per_project", "samples_per_metric"})}

InitTwin ==
    /\ mode \in {"build", "idf"}
    /\ pc = IF mode = "build" THEN "gen_orgs" ELSE "idf"
    /\ cfg \in IF mode = "build" THEN TwinConfigs ELSE {Lean({})}
    /\ oi = 1 /\ ii = 0
    /\ name = 0 /\ prj = 0 /\ tries = 0 /\ used = {} /\ chosen = {}
    /\ runs = [k \in {1, 2} |-> EmptyRun(Epoch)]

SpecTwin == InitTwin /\ [][Next]_vars

\* The program is sequential and keeps running until it returns.
MetricConfigs ==
    Vary(Lean({}), {"metrics_per_project", "samples_per_metric"})
    \cup { [Lean({}) EXCEPT !.projects_per_org = 2, !.metrics_per_project = 2] }

InitLive ==
    /\ mode \in {"build", "idf"}
    /\ pc = IF mode = "build" THEN "gen_orgs" ELSE "idf"
    /\ cfg \in IF mode = "build" THEN MetricConfigs ELSE {Lean({})}
    /\ oi = 1 /\ ii = 0
    /\ name = 0 /\ prj = 0 /\ tries = 0 /\ used = {} /\ chosen = {}
    /\ runs = [k \in {1} |-> EmptyRun(Epoch)]

SpecLive == InitLive /\ [][Next]_vars /\ WF_vars(Next)

-----------------------------------------------------------------------------
(* The output and helpers of the properties *)

\* data: the value build_mock_data returns
Data(r) ==
    [ orgs |-> r.orgs, users |-> r.users, projects |-> r.projects,
      permissions |-> r.permissions, feature_flags |-> r.feature_flags,
      dashboards |-> r.dashboards, widgets |-> r.widgets, metrics |-> r.metrics,
      metric_samples |-> r.metric_samples, alerts |-> r.alerts,
      incidents |-> r.incidents, eval_suites |-> r.eval_suites,
      eval_runs |-> r.eval_runs, audit_logs |-> r.audit_logs ]

Done == mode = "build" /\ pc = "done"

Recs(seq) == { seq[i] : i \in 1 .. Len(seq) }

Ids(seq) == { seq[i].id : i \in 1 .. Len(seq) }

ById(seq, id) == CHOOSE x \in Recs(seq) : x.id = id

NonNegative == \A p \in Params : cfg[p] >= 0

Clamp(n) == IF n < 0 THEN 0 ELSE n

-----------------------------------------------------------------------------
(* C1 *)

\* The log of next() calls of the (first) invocation's IdFactory
Log == R1.issued

\* Among the first j calls, those made with the prefix of call j
CallsWith(j) == { i \in 1 .. j : Log[i].prefix = Log[j].prefix }

\* The identifiers of every record of the output that has an id field
EntityIds ==
    [i \in 1 .. Len(R1.orgs) |-> R1.orgs[i].id]
    \o [i \in 1 .. Len(R1.users) |-> R1.users[i].id]
    \o [i \in 1 .. Len(R1.projects) |-> R1.projects[i].id]
    \o [i \in 1 .. Len(R1.dashboards) |-> R1.dashboards[i].id]
    \o [i \in 1 .. Len(R1.widgets) |-> R1.widgets[i].id]
    \o [i \in 1 .. Len(R1.metrics) |-> R1.metrics[i].id]
    \o [i \in 1 .. Len(R1.alerts) |-> R1.alerts[i].id]
    \o [i \in 1 .. Len(R1.incidents) |-> R1.incidents[i].id]
    \o [i \in 1 .. Len(R1.eval_suites) |-> R1.eval_suites[i].id]
    \o [i \in 1 .. Len(R1.eval_runs) |-> R1.eval_runs[i].id]
    \o [i \in 1 .. Len(R1.audit_logs) |-> R1.audit_logs[i].id]

\* C1: the k-th next(p) returns "p_k"; p's counter counts the calls made with
\* p and nothing else; no two calls return the same identifier; no two
\* entities of the output share an id.
C1_IdentifiersUnique ==
    LET log == R1.issued
        ids == EntityIds
    IN /\ \A j \in 1 .. Len(log) :
             log[j].id = log[j].prefix \o "_" \o ToString(Cardinality(CallsWith(j)))
       /\ \A p \in DOMAIN R1.counters :
             R1.counters[p] = Cardinality({ i \in 1 .. Len(log) : log[i].prefix = p })
       /\ Cardinality({ log[i].id : i \in 1 .. Len(log) }) = Len(log)
       /\ Cardinality({ ids[i] : i \in 1 .. Len(ids) }) = Len(ids)

\* C1, reached: a client interleaved two prefixes, one of them an identifier of the other.
C1_Witness ==
    /\ mode = "idf"
    /\ Len(Log) = 4
    /\ Log[1] = [prefix |-> "m", id |-> "m_1"]
    /\ Log[2] = [prefix |-> "m_1", id |-> "m_1_1"]
    /\ Log[3] = [prefix |-> "al", id |-> "al_1"]
    /\ Log[4] = [prefix |-> "m", id |-> "m_2"]

-----------------------------------------------------------------------------
(* C2 *)

\* x is absent or an id of seq
Refers(x, seq) == x # None => x \in Ids(seq)

ReferentialIntegrity(r) ==
    /\ \A u \in Recs(r.users) : Refers(u.org_id, r.orgs) /\ u.org_id # None
    /\ \A p \in Recs(r.projects) : Refers(p.org_id, r.orgs) /\ p.org_id # None
    /\ \A d \in Recs(r.dashboards) :
          /\ d.project_id \in Ids(r.projects)
          /\ Refers(d.owner_user_id, r.users)
    /\ \A m \in Recs(r.metrics) : m.project_id \in Ids(r.projects)
    /\ \A x \in Recs(r.metric_samples) : x.metric_id \in Ids(r.metrics)
    /\ \A w \in Recs(r.widgets) :
          /\ w.dashboard_id \in Ids(r.dashboards)
          /\ Refers(w.metric_id, r.metrics)
    /\ \A a \in Recs(r.alerts) :
          /\ a.project_id \in Ids(r.projects)
          /\ Refers(a.metric_id, r.metrics)
    /\ \A x \in Recs(r.incidents) : x.alert_id \in Ids(r.alerts)
    /\ \A x \in Recs(r.eval_suites) : x.project_id \in Ids(r.projects)
    /\ \A x \in Recs(r.eval_runs) : x.suite_id \in Ids(r.eval_suites)
    /\ \A x \in Recs(r.permissions) :
          /\ x.user_id \in Ids(r.users)
          /\ x.project_id \in Ids(r.projects)
    /\ \A f \in Recs(r.feature_flags) :
          \A o \in Recs(f.enabled_for_orgs) : o \in Ids(r.orgs)
    /\ \A l \in Recs(r.audit_logs) :
          /\ Refers(l.org_id, r.orgs)
          /\ Refers(l.actor_user_id, r.users)
          /\ Refers(l.target_id,
                    r.projects \o r.dashboards \o r.widgets \o r.alerts)

\* C2: in the output, for non-negative parameters, every present foreign key
\* is the id of a record of the collection it points to.
C2_ReferentialIntegrity == (Done /\ NonNegative) => ReferentialIntegrity(R1)

\* C2, reached: an output with every collection, an audit log aimed at a widget and a flag
\* enabled for an org.
C2_Witness ==
    /\ Done /\ cfg = Full
    /\ \E l \in Recs(R1.audit_logs) :
          l.target_id \in Ids(R1.widgets) /\ l.actor_user_id # None
    /\ \E f \in Recs(R1.feature_flags) : f.enabled_for_orgs # << >>
    /\ \E w \in Recs(R1.widgets) : w.metric_id # None
    /\ R1.incidents # << >> /\ R1.eval_runs # << >> /\ R1.permissions # << >>
    /\ R1.metric_samples # << >>

-----------------------------------------------------------------------------
(* C3 *)

HasMetrics(r, project_id) == \E m \in Recs(r.metrics) : m.project_id = project_id

\* metric_id, the reference of a record of project project_id, is a metric
\* of that project, and is absent exactly when the project has none
MetricScoped(r, metric_id, project_id) ==
    /\ metric_id # None =>
          /\ metric_id \in Ids(r.metrics)
          /\ ById(r.metrics, metric_id).project_id = project_id
    /\ metric_id = None <=> ~HasMetrics(r, project_id)

\* C3: a widget's metric belongs to the project of the widget's dashboard, an
\* alert's metric to the alert's project; metric_id is None exactly when that
\* project has no metrics.
C3_MetricScoped ==
    /\ \A w \in Recs(R1.widgets) :
          MetricScoped(R1, w.metric_id, ById(R1.dashboards, w.dashboard_id).project_id)
    /\ \A a \in Recs(R1.alerts) : MetricScoped(R1, a.metric_id, a.project_id)

\* C3, reached: two projects with metrics, and a widget and an alert of the second project
\* that refer to a metric.
C3_Witness ==
    /\ Done
    /\ Len(R1.projects) >= 2
    /\ \A p \in Recs(R1.projects) : HasMetrics(R1, p.id)
    /\ \E w \in Recs(R1.widgets) :
          /\ ById(R1.dashboards, w.dashboard_id).project_id = R1.projects[2].id
          /\ w.metric_id # None
    /\ \E a \in Recs(R1.alerts) :
          a.project_id = R1.projects[2].id /\ a.metric_id # None

-----------------------------------------------------------------------------
(* C4 *)

OrgOfProject(r, project_id) == ById(r.projects, project_id).org_id

\* C4: a dashboard's owner is a user of the org of the dashboard's project,
\* and is None exactly when that org has no users; a permission binds a user
\* to a project of the user's org.
C4_OrgScoped ==
    /\ \A d \in Recs(R1.dashboards) :
          LET org == OrgOfProject(R1, d.project_id) IN
          /\ d.owner_user_id # None =>
                /\ d.owner_user_id \in Ids(R1.users)
                /\ ById(R1.users, d.owner_user_id).org_id = org
          /\ d.owner_user_id = None <=> ~\E u \in Recs(R1.users) : u.org_id = org
    /\ \A x \in Recs(R1.permissions) :
          OrgOfProject(R1, x.project_id) = ById(R1.users, x.user_id).org_id

\* C4, reached: two orgs with users, and a dashboard of the second org that has an owner.
C4_Witness ==
    /\ Done
    /\ Len(R1.orgs) >= 2
    /\ \A o \in Recs(R1.orgs) : \E u \in Recs(R1.users) : u.org_id = o.id
    /\ \E d \in Recs(R1.dashboards) :
          /\ OrgOfProject(R1, d.project_id) = R1.orgs[2].id
          /\ d.owner_user_id # None

-----------------------------------------------------------------------------
(* C5 *)

\* The project ids bound to user_id so far
BoundTo(r, user_id) ==
    { r.permissions[i].project_id :
        i \in { j \in 1 .. Len(r.permissions) : r.permissions[j].user_id = user_id } }

\* C5, as stated: no (user_id, project_id) pair appears twice.
C5_NoDuplicateBinding ==
    \A i, j \in 1 .. Len(R1.permissions) :
       (i # j /\ R1.permissions[i].user_id = R1.permissions[j].user_id)
          => R1.permissions[i].project_id # R1.permissions[j].project_id

\* gen_permissions appends a permission in this step
BindingMade ==
    /\ mode = "build" /\ pc = "gen_permissions"
    /\ Len(runs'[1].permissions) = Len(R1.permissions) + 1

\* C5, amended: the loop re-samples at most 10 times; chosen holds the
\* projects already bound to the current user; and a binding repeats one of
\* them only when the retry counter has reached 10, that is when the first
\* draw and all 10 re-samples hit projects already chosen.
C5_DuplicateOnlyAfterBudget ==
    /\ []((mode = "build" /\ pc = "gen_permissions") => tries \in 0 .. RetryBudget)
    /\ []((mode = "build" /\ pc = "gen_permissions" /\ oi <= Len(R1.users))
             => chosen = BoundTo(R1, R1.users[oi].id))
    /\ [][(BindingMade
             /\ runs'[1].permissions[Len(runs'[1].permissions)].project_id \in chosen)
            => tries = RetryBudget]_vars

\* C5, reached: a user bound twice to the same project.
C5_Witness ==
    \E i, j \in 1 .. Len(R1.permissions) :
       /\ i < j
       /\ R1.permissions[i] = R1.permissions[j]

-----------------------------------------------------------------------------
(* C6 *)

\* C6: an incident is "resolved" exactly when resolved_at is present, "open"
\* exactly when it is absent, and resolved_at is later than opened_at (both
\* already cut to whole seconds).
C6_IncidentCausality ==
    \A x \in Recs(R1.incidents) :
       /\ x.status \in {"resolved", "open"}
       /\ x.status = "resolved" <=> x.resolved_at # NoTime
       /\ x.status = "open" <=> x.resolved_at = NoTime
       /\ x.resolved_at # NoTime => x.resolved_at[1] > x.opened_at

\* C6, reached: a resolved and an open incident.
C6_Witness ==
    /\ \E x \in Recs(R1.incidents) :
          x.status = "resolved" /\ x.resolved_at[1] = x.opened_at + 5 * 60
    /\ \E x \in Recs(R1.incidents) : x.status = "open"

-----------------------------------------------------------------------------
(* C7 *)

\* C7, as stated: with a negative parameter no output is returned.
C7_NegativeAborts == (mode = "build" /\ ~NonNegative) => pc # "done"

\* The sizes of the collections when every negative parameter counts as zero
SizesClamped(r) ==
    /\ Len(r.orgs) = Clamp(cfg.orgs_count)
    /\ Len(r.users) = Len(r.orgs) * Clamp(cfg.users_per_org)
    /\ Len(r.projects) = Len(r.orgs) * Clamp(cfg.projects_per_org)
    /\ Len(r.dashboards) = Len(r.projects) * Clamp(cfg.dashboards_per_project)
    /\ Len(r.metrics) = Len(r.projects) * Clamp(cfg.metrics_per_project)
    /\ Len(r.metric_samples) = Len(r.metrics) * Clamp(cfg.samples_per_metric)
    /\ Len(r.widgets) = Len(r.dashboards) * Clamp(cfg.widgets_per_dashboard)
    /\ Len(r.alerts) = Len(r.projects) * Clamp(cfg.alerts_per_project)
    /\ Len(r.incidents) = Len(r.alerts) * Clamp(cfg.incidents_per_alert)
    /\ Len(r.eval_suites) = Len(r.projects) * Clamp(cfg.suites_per_project)
    /\ Len(r.eval_runs) = Len(r.eval_suites) * Clamp(cfg.runs_per_suite)
    /\ Len(r.permissions) =
          Len(r.users) * Min(Clamp(cfg.permissions_per_user),
                             Clamp(cfg.projects_per_org))
    /\ Len(r.feature_flags) = Clamp(cfg.feature_flags_count)
    /\ Len(r.audit_logs) = Clamp(cfg.audit_logs_count)

\* C7, amended: with a negative parameter nothing fails: the run goes on until
\* it returns, and the output is the one of the parameter being zero in size
\* (a loop over range(count) runs no times).
C7_NegativeAsZero ==
    (mode = "build" /\ ~NonNegative) =>
       /\ pc = "done" \/ ENABLED Next
       /\ pc = "done" => SizesClamped(R1)

\* C7, reached: an output for users_per_org = -1: orgs and projects, no users.
C7_Witness ==
    /\ Done
    /\ cfg.users_per_org < 0
    /\ R1.orgs # << >> /\ R1.projects # << >> /\ R1.users = << >>

-----------------------------------------------------------------------------
(* C8 *)

\* C8: two invocations with the same seed and parameters return the same
\* data, whenever each of them runs.
C8_Deterministic ==
    Done => \A a, b \in DOMAIN runs : Data(runs[a]) = Data(runs[b])

-----------------------------------------------------------------------------
(* C9 *)

UsersOf(r, org_id) == SelectSeq(r.users, LAMBDA u : u.org_id = org_id)

\* C9: for non-negative orgs_count and users_per_org, gen_users returns
\* orgs_count * users_per_org users, users_per_org of them per org; the first
\* user of an org is its one admin, the others are members or viewers.
C9_UsersPerOrg ==
    (/\ mode = "build" /\ pc \notin {"gen_orgs", "gen_users"}
     /\ cfg.orgs_count >= 0 /\ cfg.users_per_org >= 0)
    => /\ Len(R1.users) = cfg.orgs_count * cfg.users_per_org
       /\ \A o \in Recs(R1.orgs) :
             LET us == UsersOf(R1, o.id) IN
             /\ Len(us) = cfg.users_per_org
             /\ \A i \in 1 .. Len(us) :
                   IF i = 1 THEN us[i].role = "admin"
                   ELSE us[i].role \in {"member", "viewer"}

\* C9, reached: two orgs of two users each, a member and a viewer among them.
C9_Witness ==
    /\ Done
    /\ cfg.orgs_count = 2 /\ cfg.users_per_org = 2
    /\ Len(R1.users) = 4
    /\ R1.users[2].role = "member" /\ R1.users[4].role = "viewer"

-----------------------------------------------------------------------------
(* C10 *)

\* gen_metrics appends a metric in this step
MetricMade ==
    /\ mode = "build" /\ pc = "gen_metrics"
    /\ Len(runs'[1].metrics) = Len(R1.metrics) + 1

\* C10: the loop re-samples at most 10 times; a metric repeats a name used in
\* its project only when the retry counter has reached 10, that is when the
\* first draw and all 10 re-samples collided; gen_metrics returns, with
\* metrics_per_project metrics for every project.
C10_BoundedRetry ==
    /\ []((mode = "build" /\ pc = "gen_metrics") => tries \in 0 .. RetryBudget)
    /\ [][(MetricMade /\ runs'[1].metrics[Len(runs'[1].metrics)].name \in used)
            => tries = RetryBudget]_vars
    /\ []((mode = "build" /\ pc \notin {"gen_orgs", "gen_users", "gen_projects",
                                        "gen_dashboards", "gen_metrics"}
           /\ cfg.metrics_per_project >= 0)
             => \A p \in Recs(R1.projects) :
                   Len(SelectSeq(R1.metrics, LAMBDA m : m.project_id = p.id))
                      = cfg.metrics_per_project)
    /\ (mode = "build" /\ pc = "gen_metrics") ~> (pc = "gen_metric_samples")

\* C10, reached: a project with the same metric name twice.
C10_Witness ==
    \E i, j \in 1 .. Len(R1.metrics) :
       /\ i < j
       /\ R1.metrics[i].project_id = R1.metrics[j].project_id
       /\ R1.metrics[i].name = R1.metrics[j].name

====
